---- MODULE Spec2Model ----
(***************************************************************************)
(* Session 1 of the macro-finance training app (src/pages/1_Session_1.py)  *)
(* and the reusable page template (src/template.py).                       *)
(*                                                                         *)
(* The page is a script that runs top to bottom on every interaction: each *)
(* widget section reads its controls, evaluates closed-form formulas in    *)
(* Python floats and displays the results.  The formulas are modelled in   *)
(* IEEE-754 binary64 arithmetic (53-bit significand, round to nearest,     *)
(* ties to even), which is what Python's float operators compute; a        *)
(* float division by zero raises ZeroDivisionError, which ends the run.    *)
(***************************************************************************)
EXTENDS Integers, Sequences, FiniteSets, TLC

(***************************************************************************)
(* Natural numbers of any size: little-endian sequences of 15-bit limbs    *)
(* without high zero limbs (<<>> is 0).  They carry the exact significands *)
(* and intermediate results of the float operations below.                 *)
(***************************************************************************)
Base == 2^15

RECURSIVE SmallBitLen(_)
SmallBitLen(x) == IF x = 0 THEN 0 ELSE 1 + SmallBitLen(x \div 2)

RECURSIVE Trim(_)
Trim(a) == IF a = <<>> THEN a
           ELSE IF a[Len(a)] = 0 THEN Trim(SubSeq(a, 1, Len(a) - 1)) ELSE a

RECURSIVE BigOf(_)
BigOf(n) == IF n = 0 THEN <<>> ELSE <<n % Base>> \o BigOf(n \div Base)

RECURSIVE BigToInt(_)
BigToInt(a) == IF a = <<>> THEN 0 ELSE a[1] + Base * BigToInt(Tail(a))

RECURSIVE BigAddC(_, _, _)
BigAddC(a, b, c) ==
    IF a = <<>> /\ b = <<>> THEN (IF c = 0 THEN <<>> ELSE <<c>>)
    ELSE LET x == (IF a = <<>> THEN 0 ELSE a[1]) + (IF b = <<>> THEN 0 ELSE b[1]) + c
         IN <<x % Base>> \o BigAddC(IF a = <<>> THEN a ELSE Tail(a),
                                    IF b = <<>> THEN b ELSE Tail(b), x \div Base)
BigAdd(a, b) == BigAddC(a, b, 0)

RECURSIVE BigSubB(_, _, _)
BigSubB(a, b, br) ==
    IF a = <<>> THEN <<>>
    ELSE LET x == a[1] - (IF b = <<>> THEN 0 ELSE b[1]) - br
         IN <<IF x < 0 THEN x + Base ELSE x>>
            \o BigSubB(Tail(a), IF b = <<>> THEN b ELSE Tail(b), IF x < 0 THEN 1 ELSE 0)
BigSub(a, b) == Trim(BigSubB(a, b, 0))

RECURSIVE BigCmpAt(_, _, _)
BigCmpAt(a, b, i) == IF i = 0 THEN 0
                     ELSE IF a[i] > b[i] THEN 1
                     ELSE IF a[i] < b[i] THEN -1 ELSE BigCmpAt(a, b, i - 1)
BigCmp(a, b) == IF Len(a) > Len(b) THEN 1
                ELSE IF Len(a) < Len(b) THEN -1 ELSE BigCmpAt(a, b, Len(a))

RECURSIVE BigMulSmallC(_, _, _)
BigMulSmallC(a, k, c) ==
    IF a = <<>> THEN (IF c = 0 THEN <<>> ELSE <<c>>)
    ELSE LET x == a[1] * k + c
         IN <<x % Base>> \o BigMulSmallC(Tail(a), k, x \div Base)
BigMulSmall(a, k) == IF k = 0 THEN <<>> ELSE BigMulSmallC(a, k, 0)

RECURSIVE BigMul(_, _)
BigMul(a0, b0) ==
    LET
        a == a0
        b == b0
    IN
        IF a = <<>> \/ b = <<>> THEN <<>>
        ELSE LET hi == BigMul(a, Tail(b))
             IN BigAdd(BigMulSmall(a, b[1]), IF hi = <<>> THEN hi ELSE <<0>> \o hi)

BigShl(a, n) == IF a = <<>> THEN a
                ELSE [i \in 1..(n \div 15) |-> 0] \o BigMulSmallC(a, 2^(n % 15), 0)

BigShr(a, n) ==
    LET k == n \div 15
        s == n % 15
        L == Len(a) - k
    IN IF L <= 0 THEN <<>>
       ELSE Trim([i \in 1..L |->
                 (a[i + k] \div 2^s)
                 + (IF i + k < Len(a) THEN (a[i + k + 1] % 2^s) * 2^(15 - s) ELSE 0)])

BigBit(a, i) == IF (i \div 15) + 1 > Len(a) THEN 0
                ELSE (a[(i \div 15) + 1] \div 2^(i % 15)) % 2

\* whether any of the n low bits of a is set
BigLowSet(a, n) ==
    \E i \in 1..Len(a) :
        \/ i <= n \div 15 /\ a[i] # 0
        \/ i = (n \div 15) + 1 /\ a[i] % 2^(n % 15) # 0

BigBitLen(a) == IF a = <<>> THEN 0 ELSE 15 * (Len(a) - 1) + SmallBitLen(a[Len(a)])

\* the quotient digit floor(r / d) for r < d * Base, d normalised (top limb >= Base/2):
\* the estimate from the two top limbs is at most 2 too large
QuotDigit(r0, d0) ==
    LET
        r == r0
        d == d0
    IN
        LET L == Len(d)
            top == (IF Len(r) > L THEN r[L + 1] * Base ELSE 0) + (IF Len(r) >= L THEN r[L] ELSE 0)
            est == top \div d[L]
            g0 == IF est > Base - 1 THEN Base - 1 ELSE est
        IN IF BigCmp(BigMulSmall(d, g0), r) <= 0 THEN g0
           ELSE IF BigCmp(BigMulSmall(d, g0 - 1), r) <= 0 THEN g0 - 1
           ELSE g0 - 2

RECURSIVE BigDivLoop(_, _, _, _, _)
BigDivLoop(n, d, i, r, q) ==
    IF i = 0 THEN <<Trim(q), r>>
    ELSE LET r2 == Trim(<<n[i]>> \o r)
             g == QuotDigit(r2, d)
         IN BigDivLoop(n, d, i - 1, BigSub(r2, BigMulSmall(d, g)), <<g>> \o q)
\* <<floor(n/d), (n mod d) scaled by a power of two>>
BigDivMod(n0, d0) ==
    LET
        n == n0
        d == d0
    IN
        LET z == 15 - SmallBitLen(d[Len(d)])
            nn == BigShl(n, z)
            dd == BigShl(d, z)
            k == IF Len(nn) < Len(dd) THEN Len(nn) ELSE Len(dd) - 1
        IN BigDivLoop(nn, dd, Len(nn) - k, SubSeq(nn, Len(nn) - k + 1, Len(nn)), <<>>)

RECURSIVE LowZeroLimbs(_, _)
LowZeroLimbs(a, i) == IF a[i + 1] # 0 THEN i ELSE LowZeroLimbs(a, i + 1)

RECURSIVE SmallTrailingZeros(_)
SmallTrailingZeros(x) == IF x % 2 = 1 THEN 0 ELSE 1 + SmallTrailingZeros(x \div 2)

\* the number of low zero bits of a # 0
TrailingZeros(a) ==
    LET k == LowZeroLimbs(a, 0) IN 15 * k + SmallTrailingZeros(a[k + 1])

\* 10^k as a natural number
RECURSIVE BigPow10(_)
BigPow10(k) == IF k = 0 THEN <<1>> ELSE BigMulSmall(BigPow10(k - 1), 10)

RECURSIVE BigPow(_, _)
BigPow(a, t) == IF t = 0 THEN <<1>> ELSE LET p == BigPow(a, t - 1) IN BigMul(p, a)

(***************************************************************************)
(* Python floats.  A float is [s, m, e] with value s * m * 2^e: s the      *)
(* sign, m an odd natural number of at most Prec bits (<<>> for 0.0), e    *)
(* the exponent.  The values of this program stay far from the overflow    *)
(* and subnormal ranges, so the exponent is unbounded here.  Raised stands *)
(* for an expression whose evaluation raised ZeroDivisionError; every      *)
(* operation on it is Raised too, as the exception propagates.             *)
(***************************************************************************)
Prec == 53

FZero == [s |-> 1, m |-> <<>>, e |-> 0]

Raised == [s |-> 0, m |-> <<>>, e |-> 0]

IsRaised(a) == a.s = 0

Canon(s, n0, e) ==
    LET
        n == n0
    IN
        IF n = <<>> THEN FZero
        ELSE LET z == TrailingZeros(n)
             IN [s |-> s, m |-> BigShr(n, z), e |-> e + z]

\* the float nearest s * (n + t) * 2^e, 0 <= t < 1 and t > 0 iff sticky
\* (n has Prec + 2 bits or more when sticky); ties go to the even significand
RoundNat(s, n0, e, sticky) ==
    LET
        n == n0
    IN
        LET bl == BigBitLen(n)
        IN IF bl <= Prec THEN Canon(s, n, e)
           ELSE LET drop == bl - Prec
                    q == BigShr(n, drop)
                    up == BigBit(n, drop - 1) = 1
                          /\ (sticky \/ BigLowSet(n, drop - 1) \/ BigBit(q, 0) = 1)
                IN Canon(s, IF up THEN BigAddC(q, <<>>, 1) ELSE q, e + drop)

\* a * b
FMul(x, y) ==
    LET
        a == x
        b == y
    IN
        IF IsRaised(a) \/ IsRaised(b) THEN Raised
        ELSE RoundNat(a.s * b.s, BigMul(a.m, b.m), a.e + b.e, FALSE)

\* a / b: float division by zero raises ZeroDivisionError
FDiv(x, y) ==
    LET
        a == x
        b == y
    IN
        IF IsRaised(a) \/ IsRaised(b) \/ b.m = <<>> THEN Raised
        ELSE IF a.m = <<>> THEN FZero
        ELSE LET k == IF Prec + 2 + BigBitLen(b.m) - BigBitLen(a.m) > 0
                      THEN Prec + 2 + BigBitLen(b.m) - BigBitLen(a.m) ELSE 0
                 qr == BigDivMod(BigShl(a.m, k), b.m)
             IN RoundNat(a.s * b.s, qr[1], a.e - b.e - k, qr[2] # <<>>)

\* a + b
FAdd(x, y) ==
    LET
        a == x
        b == y
    IN
        IF IsRaised(a) \/ IsRaised(b) THEN Raised
        ELSE IF a.m = <<>> THEN b
        ELSE IF b.m = <<>> THEN a
        ELSE LET e == IF a.e < b.e THEN a.e ELSE b.e
                 na == BigShl(a.m, a.e - e)
                 nb == BigShl(b.m, b.e - e)
                 c == BigCmp(na, nb)
             IN IF a.s = b.s THEN RoundNat(a.s, BigAdd(na, nb), e, FALSE)
                ELSE IF c = 0 THEN FZero
                ELSE IF c > 0 THEN RoundNat(a.s, BigSub(na, nb), e, FALSE)
                ELSE RoundNat(b.s, BigSub(nb, na), e, FALSE)

\* -a
FNeg(x) ==
    LET
        a == x
    IN
        IF a.m = <<>> THEN a ELSE [a EXCEPT !.s = -a.s]

\* a - b
FSub(a, b) == FAdd(a, FNeg(b))

\* abs(a)
FAbs(x) ==
    LET
        a == x
    IN
        IF a.m = <<>> THEN a ELSE [a EXCEPT !.s = 1]

\* a ** t for an int t >= 0: the float nearest the exact power
\* (the C library's pow, which Python calls, returns this float or, on rare
\* arguments, its neighbour; for t = 1 and t = 2 it is exact or correctly
\* rounded, and the properties that involve higher powers compare within
\* RelTol)
FPow(x, t) ==
    LET
        a == x
    IN
        IF IsRaised(a) THEN Raised
        ELSE RoundNat(IF t % 2 = 0 THEN 1 ELSE a.s, BigPow(a.m, t), a.e * t, FALSE)

\* float(n) for an int n
FInt(n) == Canon(IF n < 0 THEN -1 ELSE 1, BigOf(IF n < 0 THEN -n ELSE n), 0)

\* the float of the decimal n / 10^k (a literal, or a control's value on its grid)
FDec(n, k) ==
    IF n = 0 THEN FZero
    ELSE LET num == BigOf(IF n < 0 THEN -n ELSE n)
             den == BigPow10(k)
             sh == IF Prec + 2 + BigBitLen(den) - BigBitLen(num) > 0
                   THEN Prec + 2 + BigBitLen(den) - BigBitLen(num) ELSE 0
             qr == BigDivMod(BigShl(num, sh), den)
         IN RoundNat(IF n < 0 THEN -1 ELSE 1, qr[1], -sh, qr[2] # <<>>)

\* the sign of a - b: -1, 0 or 1
FCmp(x, y) ==
    LET
        a == x
        b == y
    IN
        IF a.m = <<>> THEN (IF b.m = <<>> THEN 0 ELSE -b.s)
        ELSE IF b.m = <<>> THEN a.s
        ELSE IF a.s # b.s THEN a.s
        ELSE LET e == IF a.e < b.e THEN a.e ELSE b.e
             IN a.s * BigCmp(BigShl(a.m, a.e - e), BigShl(b.m, b.e - e))

FLt(a, b) == FCmp(a, b) < 0

FGt(a, b) == FCmp(a, b) > 0

FLe(a, b) == FCmp(a, b) <= 0

\* format(a, ".kf") as the integer a * 10^k rounded half to even on a's exact value
Fmt(x, k) ==
    LET
        a == x
    IN
        LET n == BigMul(a.m, BigPow10(k))
            sh == -a.e
            q == BigShr(n, sh)
            up == BigBit(n, sh - 1) = 1 /\ (BigLowSet(n, sh - 1) \/ BigBit(q, 0) = 1)
        IN IF a.m = <<>> THEN 0
           ELSE IF a.e >= 0 THEN a.s * BigToInt(BigShl(n, a.e))
           ELSE a.s * BigToInt(IF up THEN BigAddC(q, <<>>, 1) ELSE q)

One == FInt(1)

Hundred == FInt(100)

\* the elements of a sequence
Range(q) == {q[i] : i \in 1..Len(q)}

\* the relative tolerance within which two floats count as the same number
\* (that of math.isclose: 1e-09)
RelTol == FDec(1, 9)

FMax(a, b) == IF FGt(a, b) THEN a ELSE b

\* a and b are numbers and |a - b| <= RelTol * max(|a|, |b|)
IsClose(a, b) ==
    /\ ~IsRaised(a)
    /\ ~IsRaised(b)
    /\ FLe(FAbs(FSub(a, b)), FMul(RelTol, FMax(FAbs(a), FAbs(b))))

(***************************************************************************)
(* The formulas of the five interactive sections.  A control's value is    *)
(* kept as the integer count of its decimal unit (a slider with step 0.01  *)
(* in hundredths, one with step 0.5 or 0.1 in tenths, a whole-number input *)
(* in units); each formula receives the floats of these values.            *)
(***************************************************************************)

\* Faulty variants of the formulas below (each is one plausible slip away from
\* the source); the properties at the end of the module must tell the
\* formula from its variant.

\* q_B weighted with pi instead of 1 - pi
statePricesSameProb(pi, beta_risk, c1_G, c1_B) ==
    LET c0 == FInt(100)
        q_G == FMul(FMul(beta_risk, pi), FDiv(c0, c1_G))
        q_B == FMul(FMul(beta_risk, pi), FDiv(c0, c1_B))
        rf_price == FAdd(q_G, q_B)
        rf_rate == FMul(FSub(FDiv(One, rf_price), One), Hundred)
        state_price_ratio == FDiv(q_G, q_B)
        prob_ratio == FDiv(pi, FSub(One, pi))
        mu_ratio == FDiv(c1_B, c1_G)
    IN [st |-> IF IsRaised(rf_rate) \/ IsRaised(state_price_ratio) \/ IsRaised(prob_ratio)
               THEN "raised" ELSE "ok",
        q_G |-> q_G, q_B |-> q_B, rf_price |-> rf_price, rf_rate |-> rf_rate,
        state_price_ratio |-> state_price_ratio, prob_ratio |-> prob_ratio,
        mu_ratio |-> mu_ratio]

\* agent 2 given the whole endowment of good b: c_b2 = Y_b
paretoAllocationNoSplit(c_a1, alpha, beta_ge, Y_a, Y_b) ==
    LET c_a2 == FSub(Y_a, c_a1)
        c_b1 == FDiv(FMul(FMul(Y_b, beta_ge), c_a2),
                     FAdd(FMul(alpha, c_a1), FMul(beta_ge, c_a2)))
        c_b2 == Y_b
        mrs_1 == FDiv(c_b1, FMul(alpha, c_a1))
        mrs_2 == FDiv(c_b2, FMul(beta_ge, c_a2))
    IN IF IsRaised(mrs_1) \/ IsRaised(mrs_2)
       THEN [st |-> "raised"]
       ELSE [st |-> "ok", c_a2 |-> c_a2, c_b1 |-> c_b1, c_b2 |-> c_b2,
             mrs_1 |-> mrs_1, mrs_2 |-> mrs_2,
             optimal |-> FLt(FAbs(FSub(mrs_1, mrs_2)), FDec(1, 2))]

\* open() outside any try: a missing file's exception leaves the section
downloadMaterialsUncaught(found) ==
    IF found THEN [st |-> "ok", elems |-> <<"download_button">>]
    ELSE [st |-> "raised", elems |-> <<>>]

\* Intertemporal choice: pv_income, c0_optimal, c1_optimal, savings and the
\* branch of the savings message
optimalConsumption(Y0, Y1, beta, r) ==
    LET pv_income == FAdd(Y0, FDiv(Y1, FAdd(One, r)))
        c0_optimal == FDiv(FMul(pv_income, FAdd(One, r)), FAdd(FAdd(One, r), beta))
        c1_optimal == FDiv(FMul(FMul(pv_income, beta), FPow(FAdd(One, r), 2)),
                           FAdd(FAdd(One, r), beta))
        savings == FSub(Y0, c0_optimal)
    IN [st |-> "ok", pv_income |-> pv_income, c0_optimal |-> c0_optimal,
        c1_optimal |-> c1_optimal, savings |-> savings,
        info |-> IF FGt(savings, FZero) THEN "saves"
                 ELSE IF FLt(savings, FZero) THEN "borrows" ELSE "neither"]

\* Contingent claims: state prices under log utility with c0 = 100
statePrices(pi, beta_risk, c1_G, c1_B) ==
    LET c0 == FInt(100)
        q_G == FMul(FMul(beta_risk, pi), FDiv(c0, c1_G))
        q_B == FMul(FMul(beta_risk, FSub(One, pi)), FDiv(c0, c1_B))
        rf_price == FAdd(q_G, q_B)
        rf_rate == FMul(FSub(FDiv(One, rf_price), One), Hundred)
        state_price_ratio == FDiv(q_G, q_B)
        prob_ratio == FDiv(pi, FSub(One, pi))
        mu_ratio == FDiv(c1_B, c1_G)
    IN [st |-> IF IsRaised(rf_rate) \/ IsRaised(state_price_ratio) \/ IsRaised(prob_ratio)
               THEN "raised" ELSE "ok",
        q_G |-> q_G, q_B |-> q_B, rf_price |-> rf_price, rf_rate |-> rf_rate,
        state_price_ratio |-> state_price_ratio, prob_ratio |-> prob_ratio,
        mu_ratio |-> mu_ratio]

\* Pareto optimality: the allocation derived from c_a1 and the MRS test
paretoAllocation(c_a1, alpha, beta_ge, Y_a, Y_b) ==
    LET c_a2 == FSub(Y_a, c_a1)
        c_b1 == FDiv(FMul(FMul(Y_b, beta_ge), c_a2),
                     FAdd(FMul(alpha, c_a1), FMul(beta_ge, c_a2)))
        c_b2 == FSub(Y_b, c_b1)
        mrs_1 == FDiv(c_b1, FMul(alpha, c_a1))
        mrs_2 == FDiv(c_b2, FMul(beta_ge, c_a2))
    IN IF IsRaised(mrs_1) \/ IsRaised(mrs_2)
       THEN [st |-> "raised"]
       ELSE [st |-> "ok", c_a2 |-> c_a2, c_b1 |-> c_b1, c_b2 |-> c_b2,
             mrs_1 |-> mrs_1, mrs_2 |-> mrs_2,
             optimal |-> FLt(FAbs(FSub(mrs_1, mrs_2)), FDec(1, 2))]

\* Discount bond: P_discount
discountBondPrice(T, r) == FDiv(One, FPow(FAdd(One, r), T))

\* sum([C / (1 + r)**t for t in range(1, T + 1)]): the terms are added left to
\* right, starting from 0
RECURSIVE pv_coupons(_, _, _)
pv_coupons(T, C, r) ==
    IF T = 0 THEN FZero
    ELSE FAdd(pv_coupons(T - 1, C, r), FDiv(C, FPow(FAdd(One, r), T)))

\* the face value discounted over one period too many
couponBondPriceLateFace(T, C, F, r) ==
    LET pv_face == FDiv(F, FPow(FAdd(One, r), T + 1))
        P_coupon == FAdd(pv_coupons(T, C, r), pv_face)
        coupon_rate == FMul(FDiv(C, F), Hundred)
    IN [st |-> "ok", pv_coupons |-> pv_coupons(T, C, r), pv_face |-> pv_face,
        P_coupon |-> P_coupon, coupon_rate |-> coupon_rate,
        yield_pct |-> FMul(r, Hundred),
        info |-> IF FGt(P_coupon, F) THEN "premium"
                 ELSE IF FLt(P_coupon, F) THEN "discount" ELSE "par"]

\* Coupon bond: the price, its breakdown and the branch of the message
couponBondPrice(T, C, F, r) ==
    LET pv_face == FDiv(F, FPow(FAdd(One, r), T))
        P_coupon == FAdd(pv_coupons(T, C, r), pv_face)
        coupon_rate == FMul(FDiv(C, F), Hundred)
    IN [st |-> "ok", pv_coupons |-> pv_coupons(T, C, r), pv_face |-> pv_face,
        P_coupon |-> P_coupon, coupon_rate |-> coupon_rate,
        yield_pct |-> FMul(r, Hundred),
        info |-> IF FGt(P_coupon, F) THEN "premium"
                 ELSE IF FLt(P_coupon, F) THEN "discount" ELSE "par"]

qG_pricing == FDec(45, 2)

qB_pricing == FDec(52, 2)

risk_adjustment == FDec(50, 1)

\* Compare pricing methods: Arrow-Debreu, risk-neutral, risk-adjusted
priceRiskyAsset(C_good, C_bad, pi_pricing, rf_pricing) ==
    LET price_AD == FAdd(FMul(qG_pricing, C_good), FMul(qB_pricing, C_bad))
        pi_hat_good == FMul(qG_pricing, FAdd(One, rf_pricing))
        pi_hat_bad == FMul(qB_pricing, FAdd(One, rf_pricing))
        total_prob == FAdd(pi_hat_good, pi_hat_bad)
        pi_hat_good_norm == FDiv(pi_hat_good, total_prob)
        pi_hat_bad_norm == FDiv(pi_hat_bad, total_prob)
        expected_payoff_RN == FAdd(FMul(pi_hat_good_norm, C_good),
                                   FMul(pi_hat_bad_norm, C_bad))
        price_RN == FDiv(expected_payoff_RN, FAdd(One, rf_pricing))
        expected_payoff == FAdd(FMul(pi_pricing, C_good),
                                FMul(FSub(One, pi_pricing), C_bad))
        price_RA == FDiv(FSub(expected_payoff, risk_adjustment), FAdd(One, rf_pricing))
    IN [st |-> IF IsRaised(price_RN) \/ IsRaised(price_RA) THEN "raised" ELSE "ok",
        price_AD |-> price_AD, price_RN |-> price_RN, price_RA |-> price_RA]

\* the section formulas on the controls' values
timeSection(c) ==
    optimalConsumption(FInt(c.Y0), FInt(c.Y1), FDec(c.beta, 2), FDiv(FDec(c.r, 1), Hundred))

riskSection(c) ==
    statePrices(FDec(c.pi, 2), FDec(c.beta_risk, 2), FInt(c.c1_G), FInt(c.c1_B))

geSection(c) ==
    paretoAllocation(FDec(c.c_a1, 1), FDec(c.alpha, 1), FDec(c.beta_ge, 1),
                     FInt(c.Y_a), FInt(c.Y_b))

safeSection(c) ==
    IF c.bond_type = "Discount Bond"
    THEN [st |-> "ok", P_discount |-> discountBondPrice(c.T, FDiv(FDec(c.r, 1), Hundred))]
    ELSE couponBondPrice(c.T, FInt(c.C), FInt(c.F), FDiv(FDec(c.r, 1), Hundred))

riskySection(c) ==
    priceRiskyAsset(FInt(c.C_good), FInt(c.C_bad), FDec(c.pi_pricing, 2),
                    FDiv(FDec(c.rf_pricing, 1), Hundred))

\* Quiz: a radio holds 0 (no choice yet) or the chosen option 1..3; right is the
\* option the script accepts
quizFeedback(q, right) == IF q = right THEN "success" ELSE IF q # 0 THEN "error" ELSE "none"

quizSection(c) ==
    [st |-> "ok", q1 |-> quizFeedback(c.q1, 3), q2 |-> quizFeedback(c.q2, 2),
     q3 |-> quizFeedback(c.q3, 2)]

\* Download Materials: open() either finds the PDF or raises FileNotFoundError,
\* which the except clause turns into an error message
downloadMaterials(found) ==
    IF found THEN [st |-> "ok", elems |-> <<"download_button">>]
    ELSE [st |-> "ok", elems |-> <<"error:PDF not found">>]

\* template.session_page(title, description, pdf_path): the elements it shows
session_page(pdf_path, found) ==
    IF pdf_path = "None" THEN [st |-> "ok", elems |-> <<"title", "write:description">>]
    ELSE IF found
    THEN [st |-> "ok", elems |-> <<"title", "write:description",
                                   "write:Download Summary", "download_button">>]
    ELSE [st |-> "ok", elems |-> <<"title", "write:description",
                                   "write:Download Summary", "error:PDF not found">>]

(***************************************************************************)
(* The controls.  Each control ranges over points of its widget's grid     *)
(* (min, max, step of the st.slider / st.number_input call); the default   *)
(* is the widget's initial value.                                          *)
(***************************************************************************)
\* maturities explored for the bond sliders (the widgets allow 1..30)
MaxT == 4

Defaults ==
    [focus |-> "none",
     time |-> [Y0 |-> 100, Y1 |-> 100, beta |-> 95, r |-> 30],
     risk |-> [pi |-> 60, beta_risk |-> 95, c1_G |-> 120, c1_B |-> 80],
     ge |-> [c_a1 |-> 50, alpha |-> 10, beta_ge |-> 10, Y_a |-> 10, Y_b |-> 10],
     safe |-> [bond_type |-> "Discount Bond", T |-> 10, r |-> 30],
     risky |-> [C_good |-> 150, C_bad |-> 50, pi_pricing |-> 60, rf_pricing |-> 30],
     quiz |-> [q1 |-> 0, q2 |-> 0, q3 |-> 0]]

TimeControls ==
    [Y0 : {50, 100, 200}, Y1 : {50, 100}, beta : {80, 95, 99}, r : {0, 30, 50, 100}]

RiskControls ==
    [pi : {30, 60, 90}, beta_risk : {90, 99}, c1_G : {50, 120, 200}, c1_B : {30, 150}]

GeControls ==
    [c_a1 : {0, 25, 50, 100}, alpha : {5, 10, 20}, beta_ge : {10, 20},
     Y_a : {5, 10, 15}, Y_b : {5, 10}]

SafeControls ==
    [bond_type : {"Discount Bond"}, T : 1..MaxT, r : {0, 30, 100}]
    \cup [bond_type : {"Coupon Bond"}, T : 1..MaxT, C : {1, 5, 100},
          F : {50, 100, 1000}, r : {0, 20, 50, 100}]

RiskyControls ==
    [C_good : {50, 150, 200}, C_bad : {0, 50, 100}, pi_pricing : {30, 60, 90},
     rf_pricing : {0, 30, 100}]

QuizControls == [q1 : 0..3, q2 : 0..3, q3 : 0..2]

\* the widgets' values at the start of a run of the script: the controls of
\* one section as the user set them, the other sections at their defaults
\* (the sections share no variable, so each section's results depend on its
\* own controls only)
PageControls ==
    {[Defaults EXCEPT !.focus = "time", !.time = c] : c \in TimeControls}
    \cup {[Defaults EXCEPT !.focus = "risk", !.risk = c] : c \in RiskControls}
    \cup {[Defaults EXCEPT !.focus = "ge", !.ge = c] : c \in GeControls}
    \cup {[Defaults EXCEPT !.focus = "safe", !.safe = c] : c \in SafeControls}
    \cup {[Defaults EXCEPT !.focus = "risky", !.risky = c] : c \in RiskyControls}
    \cup {[Defaults EXCEPT !.focus = "quiz", !.quiz = c] : c \in QuizControls}

NoRes ==
    [time |-> [st |-> "none"], risk |-> [st |-> "none"], ge |-> [st |-> "none"],
     safe |-> [st |-> "none"], risky |-> [st |-> "none"], quiz |-> [st |-> "none"],
     download |-> [st |-> "none"]]

(***************************************************************************)
(* State: pc is the script's position, ctl the controls' values, res the   *)
(* values each section computed in this run, shown the elements displayed  *)
(* so far in this run.                                                     *)
(***************************************************************************)
VARIABLES pc, ctl, res, shown

vars == <<pc, ctl, res, shown>>

PageTop == <<"title", "markdown:overview">>

\* a section's step: its header and controls are shown, its formulas are
\* evaluated, and either the results are shown and the script goes on, or the
\* exception ends the run
Section(name, r, next) ==
    /\ pc = name
    /\ res' = [res EXCEPT ![name] = r]
    /\ IF r.st = "raised"
       THEN /\ pc' = "crashed"
            /\ shown' = shown \o <<"header:" \o name, "controls:" \o name, "exception">>
       ELSE /\ pc' = next
            /\ shown' = shown \o <<"header:" \o name, "controls:" \o name, "results:" \o name>>
    /\ UNCHANGED ctl

TimeDimension == Section("time", timeSection(ctl.time), "risk")

RiskDimension == Section("risk", riskSection(ctl.risk), "ge")

GeneralEquilibrium == Section("ge", geSection(ctl.ge), "safe")

SafeCashFlows == Section("safe", safeSection(ctl.safe), "risky")

RiskyCashFlows == Section("risky", riskySection(ctl.risky), "quiz")

Quiz == Section("quiz", quizSection(ctl.quiz), "download")

\* section 8: the outcome of open() is the environment's
DownloadMaterials ==
    /\ pc = "download"
    /\ \E found \in BOOLEAN :
           LET d == downloadMaterials(found)
           IN /\ res' = [res EXCEPT !.download = [st |-> d.st, found |-> found]]
              /\ IF d.st = "raised"
                 THEN /\ pc' = "crashed"
                      /\ shown' = shown \o <<"header:download", "exception">>
                 ELSE /\ pc' = "footer"
                      /\ shown' = shown \o <<"header:download">> \o d.elems
    /\ UNCHANGED ctl

\* the separator and the caption that end the page
Footer ==
    /\ pc = "footer"
    /\ pc' = "done"
    /\ shown' = shown \o <<"markdown:---", "caption">>
    /\ UNCHANGED <<ctl, res>>

TemplateCalls == [focus : {"template"}, pdf_path : {"None", "summaries/session1_summary.pdf"}]

\* a call of template.session_page
SessionPage ==
    /\ pc = "session_page"
    /\ \E found \in BOOLEAN :
           LET d == session_page(ctl.pdf_path, found)
           IN /\ res' = [res EXCEPT !.download =
                             [st |-> d.st, found |-> found /\ ctl.pdf_path # "None"]]
              /\ IF d.st = "raised"
                 THEN pc' = "crashed" /\ shown' = <<"exception">>
                 ELSE pc' = "returned" /\ shown' = d.elems
    /\ UNCHANGED ctl

\* a run of the page script on the widgets' current values (the defaults in
\* a fresh session), or a call of the template
Init ==
    /\ res = NoRes
    /\ \/ pc = "time" /\ ctl \in {Defaults} \cup PageControls /\ shown = PageTop
       \/ pc = "session_page" /\ ctl \in TemplateCalls /\ shown = <<>>

Next ==
    \/ TimeDimension
    \/ RiskDimension
    \/ GeneralEquilibrium
    \/ SafeCashFlows
    \/ RiskyCashFlows
    \/ Quiz
    \/ DownloadMaterials
    \/ Footer
    \/ SessionPage

Spec == Init /\ [][Next]_vars

(***************************************************************************)
(* The formulas as functions of their arguments, over arguments that need  *)
(* not lie on a widget's grid: one call, one result.                       *)
(***************************************************************************)
CalcTime ==
    [Y0 : {50, 100, 200}, Y1 : {50, 100, 200}, beta : {50, 80, 95, 99},
     r : {0, 30, 50, 100, 200}]

CalcRisk ==
    [pi : {10, 30, 60, 90}, beta_risk : {50, 95, 150}, c1_G : {50, 120, 200},
     c1_B : {30, 80, 150}]

CalcGe ==
    [c_a1 : {5, 25, 50, 75, 100}, alpha : {5, 7, 10, 20}, beta_ge : {5, 7, 10, 20},
     Y_a : {5, 10, 15}, Y_b : {5, 10}]

CalcSafe ==
    [bond_type : {"Discount Bond"}, T : 1..MaxT, r : {0, 30, 50, 100}]
    \cup [bond_type : {"Coupon Bond"}, T : 1..MaxT, C : {0, 1, 2, 5},
          F : {50, 80, 100}, r : {0, 20, 25, 30, 50, 100}]

CalcRisky ==
    [C_good : {50, 150}, C_bad : {0, 50}, pi_pricing : {30, 60}, rf_pricing : {0, 30}]

CalcCalls ==
    {[Defaults EXCEPT !.focus = "time", !.time = c] : c \in CalcTime}
    \cup {[Defaults EXCEPT !.focus = "risk", !.risk = c] : c \in CalcRisk}
    \cup {[Defaults EXCEPT !.focus = "ge", !.ge = c] : c \in CalcGe}
    \cup {[Defaults EXCEPT !.focus = "safe", !.safe = c] : c \in CalcSafe}
    \cup {[Defaults EXCEPT !.focus = "risky", !.risky = c] : c \in CalcRisky}

Eval(name, r) ==
    /\ pc = "call"
    /\ ctl.focus = name
    /\ res' = [res EXCEPT ![name] = r]
    /\ pc' = "return"
    /\ UNCHANGED <<ctl, shown>>

EvalOptimalConsumption == Eval("time", timeSection(ctl.time))

EvalStatePrices == Eval("risk", riskSection(ctl.risk))

EvalParetoAllocation == Eval("ge", geSection(ctl.ge))

EvalBondPrice == Eval("safe", safeSection(ctl.safe))

EvalPriceRiskyAsset == Eval("risky", riskySection(ctl.risky))

CalcInit == pc = "call" /\ ctl \in CalcCalls /\ res = NoRes /\ shown = <<>>

CalcNext ==
    \/ EvalOptimalConsumption
    \/ EvalStatePrices
    \/ EvalParetoAllocation
    \/ EvalBondPrice
    \/ EvalPriceRiskyAsset

CalcSpec == CalcInit /\ [][CalcNext]_vars

(***************************************************************************)
(* Properties.  The position "return" is that of CalcSpec after the call,  *)
(* the positions of Spec are those of the page script and the template.    *)
(***************************************************************************)
\* the arguments of the calls, as the sections pass them
TimeRate == FDiv(FDec(ctl.time.r, 1), Hundred)

SafeRate == FDiv(FDec(ctl.safe.r, 1), Hundred)

TimeDone == ctl.focus = "time" /\ res.time.st = "ok"

\* C1: the optimal consumption pair exhausts the lifetime budget:
\* c0 + c1/(1+r) = Y0 + Y1/(1+r), to floating-point tolerance
BudgetConstraintHolds ==
    TimeDone =>
        IsClose(FAdd(res.time.c0_optimal,
                     FDiv(res.time.c1_optimal, FAdd(One, TimeRate))),
                FAdd(FInt(ctl.time.Y0), FDiv(FInt(ctl.time.Y1), FAdd(One, TimeRate))))

\* C2: a missing PDF is reported by an error message, without a download
\* button and without ending the run: the page goes on to its separator and
\* caption, the template returns; without a pdf_path the template shows
\* neither a download section nor an error
MissingPdfReported ==
    /\ res.download.st \in {"none", "ok"}
    /\ (pc \in {"footer", "done", "returned"} /\ ctl.focus # "template"
                                              /\ ~res.download.found)
           => /\ "error:PDF not found" \in Range(shown)
              /\ "download_button" \notin Range(shown)
    /\ pc = "done"
           => SubSeq(shown, Len(shown) - 1, Len(shown)) = <<"markdown:---", "caption">>
    /\ (ctl.focus = "template" /\ res.download.st # "none")
           => /\ pc = "returned"
              /\ IF ctl.pdf_path = "None"
                 THEN shown = <<"title", "write:description">>
                 ELSE ~res.download.found
                          => /\ "error:PDF not found" \in Range(shown)
                             /\ "download_button" \notin Range(shown)

\* a run of the page with the PDF missing that reached the end of the script
MissingPdfPageDone ==
    /\ pc = "done"
    /\ ~res.download.found
    /\ "error:PDF not found" \in Range(shown)
    /\ shown[Len(shown)] = "caption"

\* C3: the three pricing methods give the same price
\* (price_AD = price_RN = price_RA, to floating-point tolerance)
PricingMethodsAgree ==
    res.risky.st = "ok" =>
        /\ IsClose(res.risky.price_AD, res.risky.price_RN)
        /\ IsClose(res.risky.price_AD, res.risky.price_RA)

\* C4: the Pareto allocation is feasible: 0 <= c_a1 <= Y_a, the two
\* consumptions of each good add up to its endowment, and each of c_a2, c_b1,
\* c_b2 lies between 0 and the endowment of its good
AllocationFeasible ==
    res.ge.st = "ok" =>
        LET c_a1 == FDec(ctl.ge.c_a1, 1)
            Y_a == FInt(ctl.ge.Y_a)
            Y_b == FInt(ctl.ge.Y_b)
            Within(x, Y) == FLe(FZero, x) /\ FLe(x, Y)
        IN /\ Within(c_a1, Y_a)
           /\ IsClose(FAdd(c_a1, res.ge.c_a2), Y_a)
           /\ IsClose(FAdd(res.ge.c_b1, res.ge.c_b2), Y_b)
           /\ Within(res.ge.c_a2, Y_a)
           /\ Within(res.ge.c_b1, Y_b)
           /\ Within(res.ge.c_b2, Y_b)

CouponDone ==
    ctl.focus = "safe" /\ ctl.safe.bond_type = "Coupon Bond" /\ res.safe.st = "ok"

\* C5: the bond is premium exactly when its price exceeds F, discount exactly
\* when its price is below F and par otherwise, and the relation its message
\* states is true of its inputs: premium implies C/F > r, discount implies
\* C/F < r, par implies C/F = r (r is ctl.safe.r / 1000, so C/F > r is
\* 1000 * C > ctl.safe.r * F)
CouponClassification ==
    (CouponDone /\ ctl.safe.C > 0) =>
        LET F == FInt(ctl.safe.F)
            lhs == 1000 * ctl.safe.C
            rhs == ctl.safe.r * ctl.safe.F
        IN /\ res.safe.info = "premium" <=> FGt(res.safe.P_coupon, F)
           /\ res.safe.info = "discount" <=> FLt(res.safe.P_coupon, F)
           /\ res.safe.info = "par" <=> res.safe.P_coupon = F
           /\ res.safe.info = "premium" => lhs > rhs
           /\ res.safe.info = "discount" => lhs < rhs
           /\ res.safe.info = "par" => lhs = rhs

RiskDone == ctl.focus = "risk" /\ res.risk.st = "ok"

\* C6: the ratio of the state prices is the probability ratio times the ratio
\* of consumptions, q_G/q_B = (pi/(1-pi)) * (c1_B/c1_G), whatever beta is
\* (equality of the computed floats to floating-point tolerance)
StatePriceRatio ==
    RiskDone =>
        /\ IsClose(FDiv(res.risk.q_G, res.risk.q_B),
                   FMul(FDiv(FDec(ctl.risk.pi, 2), FSub(One, FDec(ctl.risk.pi, 2))),
                        FDiv(FInt(ctl.risk.c1_B), FInt(ctl.risk.c1_G))))
        /\ IsClose(res.risk.state_price_ratio, FMul(res.risk.prob_ratio, res.risk.mu_ratio))

\* state prices computed for a discount factor and a probability other than
\* the controls' defaults
StatePricesComputed ==
    /\ RiskDone
    /\ pc = "return"
    /\ ctl.risk.beta_risk = 150
    /\ ctl.risk.pi = 10
    /\ ctl.risk.c1_G # ctl.risk.c1_B
    /\ res.risk.q_G # res.risk.q_B

GeSymmetric ==
    /\ ctl.focus = "ge"
    /\ res.ge.st # "none"
    /\ ctl.ge.alpha = ctl.ge.beta_ge
    /\ 2 * ctl.ge.c_a1 = 10 * ctl.ge.Y_a

\* C7: with alpha = beta and c_a1 = Y_a/2 the endowment of good b is split
\* evenly (c_b1 = c_b2 = Y_b/2), MRS1 = MRS2, and the allocation is reported
\* as Pareto optimal
SymmetricCaseOptimal ==
    GeSymmetric =>
        /\ res.ge.st = "ok"
        /\ IsClose(res.ge.c_b1, res.ge.c_b2)
        /\ IsClose(res.ge.c_b1, FDiv(FInt(ctl.ge.Y_b), FInt(2)))
        /\ IsClose(res.ge.mrs_1, res.ge.mrs_2)
        /\ res.ge.optimal

\* a symmetric allocation away from the defaults was evaluated
SymmetricCaseEvaluated ==
    /\ GeSymmetric
    /\ pc = "return"
    /\ ctl.ge.alpha = 20
    /\ ctl.ge.Y_a = 15
    /\ ctl.ge.Y_b = 5
    /\ res.ge.optimal

\* C8: optimalConsumption(100, 100, 0.95, 0.05) has pv = 195.238..., and to
\* two decimals c0 = 100.12 and savings = -0.12
QuizScenarioValues ==
    (TimeDone /\ ctl.time = [Y0 |-> 100, Y1 |-> 100, beta |-> 95, r |-> 50]) =>
        /\ Fmt(res.time.pv_income, 3) = 195238
        /\ Fmt(res.time.c0_optimal, 2) = 10012
        /\ Fmt(res.time.savings, 2) = -12

\* C9: with C = 0 the coupons are worth nothing and the price is the present
\* value of the face, F times the discount bond price of the same T and r
\* (the last to floating-point tolerance: F / p against F * (1 / p))
ZeroCouponReduces ==
    (CouponDone /\ ctl.safe.C = 0) =>
        /\ res.safe.pv_coupons = FZero
        /\ res.safe.P_coupon = res.safe.pv_face
        /\ IsClose(res.safe.pv_face,
                   FMul(FInt(ctl.safe.F), discountBondPrice(ctl.safe.T, SafeRate)))

\* a bond without coupons was priced at a positive yield over several periods
ZeroCouponPriced ==
    /\ CouponDone
    /\ pc = "return"
    /\ ctl.safe.C = 0
    /\ ctl.safe.T = 3
    /\ ctl.safe.r = 50
    /\ FLt(res.safe.P_coupon, FInt(ctl.safe.F))

\* C10: no run of the page ends in a division by zero
RenderCompletes == pc # "crashed"

\* an interior consumption choice: 0 < c_a1 < Y_a (alpha, beta and Y_b are
\* positive on all the inputs explored)
GeInterior ==
    /\ ctl.focus = "ge"
    /\ res.ge.st # "none"
    /\ 0 < ctl.ge.c_a1
    /\ ctl.ge.c_a1 < 10 * ctl.ge.Y_a
    /\ ctl.ge.alpha > 0 /\ ctl.ge.beta_ge > 0 /\ ctl.ge.Y_b > 0

\* C11: for an interior consumption choice the derived allocation has
\* MRS1 = MRS2 (to floating-point tolerance), so the test
\* |MRS1 - MRS2| < 0.01 succeeds and "Not Pareto optimal" is never shown
InteriorAlwaysOptimal ==
    GeInterior =>
        /\ res.ge.st = "ok"
        /\ IsClose(res.ge.mrs_1, res.ge.mrs_2)
        /\ res.ge.optimal
====
